---- MODULE Spec2Model ----
(***************************************************************************)
(* Model of the BWT Cosmy device session coordinator                       *)
(* (custom_components/bwt_cosmy/coordinator.py, class CosmyCoordinator).   *)
(*                                                                         *)
(* The coordinator runs on one asyncio event loop.  A step of the model is *)
(* one uninterrupted run of code on that loop: from the point where a      *)
(* coroutine or callback is resumed up to its next suspending `await` (or  *)
(* its return).  Transport operations (connect, start_notify, stop_notify, *)
(* write_gatt_char, disconnect, sleep) suspend; their outcome is chosen    *)
(* when the coroutine is resumed.                                          *)
(***************************************************************************)
EXTENDS Integers, Sequences, FiniteSets, TLC

VARIABLES
    co,      \* the CosmyCoordinator object's fields (coordinator.py:53-83)
    bus,     \* what the dispatcher last carried on the three signals
    rf,      \* async_refresh coroutines: position, local `client`, and
             \* whether async_stop returned while the coroutine was running
    cmd,     \* async_start_cleaning / async_stop_cleaning coroutine
    stp,     \* lifecycle and position of async_stop
    tasks,   \* async_refresh tasks created by async_create_task, not yet run
    loopq,   \* callbacks posted with call_soon_threadsafe, not yet run
    link,    \* the transport: connected sessions and their subscriptions
    hist     \* observation only: what the last step did, and the retry
             \* delays scheduled since the backoff was last reset

vars == <<co, bus, rf, cmd, stp, tasks, loopq, link, hist>>

-----------------------------------------------------------------------------
(* Bounds of the model *)

MaxRefresh == 2      \* async_refresh coroutine objects that can exist at once
MaxTasks == 2        \* created-but-not-started refresh tasks
MaxQueue == 1        \* callbacks waiting in the event loop
MaxSess == 1         \* transport session identities
MaxFail == 6         \* counted consecutive retry schedulings (saturates)

-----------------------------------------------------------------------------
(* Program constants *)

\* hard timeouts of lines 37-38, in seconds
CONNECT_TIMEOUT == 6
REFRESH_TIMEOUT == 5
BACKOFF_START == 3
BACKOFF_MAX == 30
MINUTES_CEILING == 300
STATUS_LEN == 20

None == "None"       \* Optional[bool] values are "None", "True", "False"
NoneInt == -1        \* the None of an Optional[int] payload
NoSession == 0       \* _client is None

OptBool(b) == IF b THEN "True" ELSE "False"
Min(a, b) == IF a <= b THEN a ELSE b

-----------------------------------------------------------------------------
(* Frames: sequences of bytes *)

Zeros(n) == [i \in 1..n |-> 0]
HEADER == <<255, 165, 58, 19, 132>>                  \* ffa53a1384
FrameCleaning30 == HEADER \o <<133, 30, 0>> \o Zeros(12)
FrameIdleInWater == HEADER \o <<5, 30, 0>> \o Zeros(8) \o <<0, 1, 0, 0>>
FrameAck == <<0, 81, 12>>                            \* 00 51 0c
FrameOther == <<255, 165, 10, 2>>

Frames == {FrameCleaning30, FrameIdleInWater, FrameAck, FrameOther}
\* cleaning with bytes 6..7 = 2d 01 (301), above the ceiling of line 260
FrameCleaning301 == HEADER \o <<133, 45, 1>> \o Zeros(12)
\* acknowledgements matched by one clause of the filter only
FrameAck4 == <<0, 81, 1, 2>>                         \* 00 51 01 02
FrameAckTail == Zeros(9) \o <<81, 12, 253>>          \* 12 bytes, .. 51 0c fd
\* status frames that end the way an acknowledgement does
FrameStatusTail510c == HEADER \o <<133, 7, 0>> \o Zeros(10) \o <<81, 12>>
FrameStatusTail510cfd == HEADER \o <<133, 9, 0>> \o Zeros(9) \o <<81, 12, 253>>
\* 20-byte frames with the status header: byte 5, bytes 6..7, bytes 16..19
DecodeInputs ==
    {HEADER \o <<b5, lo, hi>> \o Zeros(8) \o tail :
        b5 \in {0, 5, 127, 128, 133, 255},
        lo \in {0, 30, 44, 45, 255},
        hi \in {0, 1, 255},
        tail \in {<<0, 0, 0, 0>>, <<1, 0, 0, 0>>, <<0, 1, 0, 0>>,
                  <<0, 0, 128, 0>>, <<0, 0, 0, 1>>}}
    \cup {FrameStatusTail510c, FrameStatusTail510cfd}
\* the frames the peer sends in the specification about frame handling
SessionFrames == Frames \cup {FrameCleaning301, FrameAck4, FrameAckTail}
\* the frame the peer sends in the specifications about scheduling
StatusFrames == {FrameCleaning30}

Slice(data, from, to) ==
    [i \in 1..(Min(to, Len(data)) - from) |-> data[from + i]]

EndsWith(data, suffix) ==
    /\ Len(data) >= Len(suffix)
    /\ \A i \in 1..Len(suffix) : data[Len(data) - Len(suffix) + i] = suffix[i]

\* lines 239-243 as they would read without the two length tests
_is_ack_frame_nolen(data) ==
    \/ Slice(data, 0, 2) = <<0, 81>>
    \/ EndsWith(data, <<81, 12>>) \/ EndsWith(data, <<81, 12, 253>>)
\* lines 239-243 as they would read if no frame were taken for an ACK
_is_ack_frame_never(data) == FALSE
_is_ack_frame(data) ==
    \/ Len(data) \in {3, 4} /\ Slice(data, 0, 2) = <<0, 81>>
    \/ Len(data) <= 12 /\ (EndsWith(data, <<81, 12>>) \/ EndsWith(data, <<81, 12, 253>>))

Bit7(b) == (b \div 128) % 2 = 1
FromLittle16(data) == data[7] + 256 * data[8]

\* lines 260-261 as they would read without the guard
ClampMinutes_unguarded(m) == m
ClampMinutes(m) == IF m > MINUTES_CEILING THEN 0 ELSE m

\* _parse_status applied to the coordinator `self`
_parse_status(self, data) ==
    IF Len(data) = STATUS_LEN /\ Slice(data, 0, 5) = HEADER
    THEN LET cleaning == Bit7(data[6])
             minutes == IF cleaning THEN FromLittle16(data) ELSE 0
         IN  [self EXCEPT !.cleaning = OptBool(cleaning),
                          !.minutes = ClampMinutes(minutes),
                          !.in_water = OptBool(\E i \in 17..20 : data[i] # 0)]
    ELSE self

-----------------------------------------------------------------------------
(* Dispatcher *)

\* _push_update: the payloads of the three async_dispatcher_send calls
_push_update(self) ==
    [minutes |-> IF self.available THEN self.minutes ELSE NoneInt,
     state |-> <<IF self.available THEN self.cleaning ELSE None, self.minutes>>,
     in_water |-> IF self.available THEN self.in_water ELSE None]

\* CosmyMinutesSensor._on_minutes (sensor.py:99-109), run for the payload of
\* sig_minutes: availability is read from the coordinator, the value from
\* the payload
MinutesSensor(self, minutes) ==
    [available |-> self.available,
     minutes |-> IF ~self.available THEN NoneInt
                 ELSE IF minutes = NoneInt THEN 0 ELSE minutes]

\* BwtCosmyInWaterBinarySensor._on_flag (binary_sensor.py:47-51), run for
\* the payload of sig_in_water and, at line 58, for the coordinator's
\* current value when the entity is added
InWaterSensor(value) ==
    [available |-> value # None,
     is_on |-> value]

-----------------------------------------------------------------------------
(* Backoff *)

\* line 343 as it would read if the delay were taken after the doubling
BackoffDelay_doubled(b) == Min(b * 2, BACKOFF_MAX)
\* line 343: delay = min(self._backoff, BACKOFF_MAX)
BackoffDelay(b) == Min(b, BACKOFF_MAX)

\* line 345 as it would read without the cap
NextBackoff_uncapped(b) == b * 2
\* line 345: self._backoff = min(self._backoff * 2, BACKOFF_MAX)
NextBackoff(b) == Min(b * 2, BACKOFF_MAX)

\* lines 341-350 as they would read without the call_later of line 348
_schedule_backoff_unarmed(self) ==
    [self EXCEPT !._backoff = NextBackoff(self._backoff),
                 !._backoff_handle = "None"]
\* _schedule_backoff: the handle is replaced by a new pending timer
_schedule_backoff(self) ==
    [self EXCEPT !._backoff = NextBackoff(self._backoff),
                 !._backoff_handle = "pending"]

\* lines 298-300 as they would read without the cancel
CancelBackoff_skip(self) == self
\* `if self._backoff_handle: cancel(); self._backoff_handle = None`
CancelBackoff(self) == [self EXCEPT !._backoff_handle = "None"]


-----------------------------------------------------------------------------
(* State after construction *)

Slots == 1..MaxRefresh
Sessions == 1..MaxSess

IdleSlot == [pc |-> "idle", client |-> NoSession, stopped |-> FALSE]

InitCo ==
    [_client |-> NoSession, cleaning |-> None, minutes |-> 0,
     available |-> FALSE, in_water |-> None,
     _lock |-> FALSE, _unsub_timer |-> FALSE, _unsub_refresh |-> FALSE,
     _refresh_queued |-> FALSE,
     _backoff |-> BACKOFF_START, _backoff_handle |-> "None",
     _notify_active |-> FALSE]

Init ==
    /\ co = InitCo
    /\ bus = [minutes |-> NoneInt, state |-> <<None, 0>>, in_water |-> None]
    /\ rf = [i \in Slots |-> IdleSlot]
    /\ cmd = [pc |-> "idle", kind |-> "start", client |-> NoSession]
    /\ stp = [pc |-> "new", client |-> NoSession]
    /\ tasks = 0
    /\ loopq = {}
    /\ link = [conn |-> {}, sub |-> {}]
    /\ hist = [ev |-> "none", lastDelay |-> 0, failRun |-> 0]

-----------------------------------------------------------------------------
(* Helpers shared by the operations *)

\* lines 293-295 as they would read if the lock were never found held
locked_unchecked(self) == FALSE
\* self._lock.locked()
locked(self) == self._lock

\* line 138 as it would read if the held session were never found connected
IsConnected_never(self) == FALSE
\* `self._client and self._client.is_connected`
IsConnected(self) == self._client # NoSession /\ self._client \in link.conn

\* a session identity no part of the program still refers to
FreeSessions ==
    {s \in Sessions :
        /\ s \notin link.conn
        /\ s # co._client
        /\ \A i \in Slots : rf[i].client # s
        /\ cmd.client # s
        /\ stp.client # s}
NewSession == CHOOSE s \in FreeSessions : \A t \in FreeSessions : s <= t

\* _ensure_client, peer not resolved (lines 149-153)
EnsureNotFound(self) == [self EXCEPT !.available = FALSE, !.minutes = 0]
\* _ensure_client, connection established (lines 158-174)
EnsureConnected(self, s) ==
    [self EXCEPT !._client = s, !.available = TRUE, !._notify_active = FALSE]
\* _ensure_client, connect raised or timed out (lines 175-180)
EnsureFailed(self) ==
    [self EXCEPT !.available = FALSE, !.minutes = 0, !._notify_active = FALSE]

\* lines 323-324 / 304-305 as they would read without `self.minutes = 0`
MarkUnavailable_keep_minutes(self) == [self EXCEPT !.available = FALSE]
\* `self.available = False; self.minutes = 0`
MarkUnavailable(self) == [self EXCEPT !.available = FALSE, !.minutes = 0]

\* _on_disconnect and the tail of async_stop write the same fields
DropSession(self) ==
    [self EXCEPT !._client = NoSession, !.available = FALSE, !.minutes = 0,
                 !.in_water = None, !._notify_active = FALSE]

\* the transport after session s went away
LinkWithout(s) == [conn |-> link.conn \ {s}, sub |-> link.sub \ {s}]

DisconnectCb == [cb |-> "_on_disconnect", data |-> <<>>]
RefreshCb == [cb |-> "_queue_or_run_refresh", data |-> <<>>]
NotifyCb(data) == [cb |-> "_handle_notify", data |-> data]

CanPost(c) == c \in loopq \/ Cardinality(loopq) < MaxQueue

\* room for one more refresh task, counting the ones already promised
Room ==
    tasks + (IF co._refresh_queued THEN 1 ELSE 0)
          + (IF RefreshCb \in loopq THEN 1 ELSE 0) < MaxTasks

\* hist.ev names what the step that led to the current state did:
\*   "ok", "fail", "nosess", "skip"  an async_refresh ended that way
\*   "cmdfail", "cmdnosess"          a command scheduled a retry
\*   "stop"                          async_stop returned
\*   "pub"                           another step published
\*   "ack"                           _handle_notify returned at line 249
\*   "begin", "preempt"              an async_refresh took the lock and
\*                                   suspended; "preempt" when it cancelled a
\*                                   pending retry timer at lines 298-300
\*   "none"                          anything else
\* hist.lastDelay is the `delay` of the last _schedule_backoff call (line 343)
\* and hist.failRun the number of such calls since the last reset of _backoff
\* at line 321.
Publishing == {"ok", "fail", "nosess", "cmdnosess", "stop", "pub"}
Scheduling == {"fail", "nosess", "cmdfail", "cmdnosess"}

HSched(self, e) ==
    [ev |-> e,
     lastDelay |-> BackoffDelay(self._backoff),
     failRun |-> Min(hist.failRun + 1, MaxFail)]
HReset(e) == [ev |-> e, lastDelay |-> hist.lastDelay, failRun |-> 0]
HEv(e) == [hist EXCEPT !.ev = e]

-----------------------------------------------------------------------------
(* async_refresh (coordinator.py:291-339) *)

\* the coroutine suspends at an await
RefreshSuspend(c, i, pc, client, t) ==
    /\ co' = c
    /\ rf' = [rf EXCEPT ![i] = [@ EXCEPT !.pc = pc, !.client = client]]
    /\ tasks' = t
    /\ hist' = HEv(IF co._lock THEN "none"
                   ELSE IF co._backoff_handle = "pending" THEN "preempt"
                   ELSE "begin")
    /\ UNCHANGED bus

\* lines 303-309: no session; returns before the try, so the finally at
\* lines 335-339 is not part of this path
RefreshNoClient(c, i, t) ==
    LET c1 == MarkUnavailable(c)
    IN  /\ bus' = _push_update(c1)
        /\ co' = [_schedule_backoff(c1) EXCEPT !._lock = FALSE]
        /\ rf' = [rf EXCEPT ![i] = IdleSlot]
        /\ tasks' = t
        /\ hist' = HSched(c1, "nosess")

\* lines 335-339: the finally of the try, then the lock is released
RefreshFinally(c) == [c EXCEPT !._refresh_queued = FALSE, !._lock = FALSE]
TrailingTasks(c) == IF c._refresh_queued THEN tasks + 1 ELSE tasks

\* lines 318-321, then the finally
RefreshSucceed(c, i) ==
    LET c1 == [c EXCEPT !.available = TRUE]
        c2 == [c1 EXCEPT !._backoff = BACKOFF_START]
    IN  /\ bus' = _push_update(c1)
        /\ co' = RefreshFinally(c2)
        /\ rf' = [rf EXCEPT ![i] = IdleSlot]
        /\ tasks' = TrailingTasks(c2)
        /\ hist' = HReset("ok")

\* lines 331-334, then the finally
RefreshExceptTail(c, i) ==
    LET c1 == [c EXCEPT !._client = NoSession, !._notify_active = FALSE]
        c2 == _schedule_backoff(c1)
    IN  /\ bus' = _push_update(c1)
        /\ co' = RefreshFinally(c2)
        /\ rf' = [rf EXCEPT ![i] = IdleSlot]
        /\ tasks' = TrailingTasks(c2)
        /\ hist' = HSched(c1, "fail")

\* lines 322-330: the except branch up to `await self._client.disconnect()`
RefreshExcept(c, i) ==
    LET c1 == MarkUnavailable(c)
    IN  IF IsConnected(c1)
        THEN RefreshSuspend(c1, i, "disc", c1._client, tasks)
        ELSE RefreshExceptTail(c1, i)

\* line 313 as it would read if _safe_start_notify did not test the flag
RefreshExchange_always_start(c, i, client, t) ==
    RefreshSuspend(c, i, "startn", client, t)
\* line 313: _safe_start_notify returns at once when the flag is set, and
\* the coroutine goes on to the write of line 315
RefreshExchange(c, i, client, t) ==
    IF c._notify_active
    THEN RefreshSuspend(c, i, "write", client, t)
    ELSE RefreshSuspend(c, i, "startn", client, t)

FirstIdle == CHOOSE i \in Slots : rf[i].pc = "idle" /\ \A j \in Slots : rf[j].pc = "idle" => i <= j

\* lines 293-309 and _ensure_client lines 138-153, up to the first await.
\* t is the number of waiting tasks once this coroutine has started.
RefreshBegin(t) ==
    /\ \E i \in Slots : rf[i].pc = "idle"
    /\ UNCHANGED <<cmd, stp, loopq, link>>
    /\ IF locked(co)
       THEN /\ tasks' = t
            /\ hist' = HEv("skip")
            /\ UNCHANGED <<co, bus, rf>>
       ELSE LET i == FirstIdle
                c1 == CancelBackoff([co EXCEPT !._lock = TRUE])
            IN  IF IsConnected(c1)
                THEN RefreshExchange(c1, i, c1._client, t)
                ELSE \/ RefreshNoClient(EnsureNotFound(c1), i, t)
                     \/ RefreshSuspend(c1, i, "conn", NoSession, t)

\* a task created by async_create_task starts running
TaskStart ==
    /\ tasks > 0
    /\ RefreshBegin(tasks - 1)

\* _scheduled_refresh (lines 120-121), fired by async_track_time_interval
TimerTick ==
    /\ co._unsub_timer
    /\ RefreshBegin(tasks)

\* establish_connection returns or raises/times out (lines 155-180)
RefreshConnectDone(i) ==
    /\ rf[i].pc = "conn"
    /\ UNCHANGED <<cmd, stp, loopq>>
    /\ \/ /\ FreeSessions # {}
          /\ link' = [link EXCEPT !.conn = @ \cup {NewSession}]
          /\ RefreshExchange(EnsureConnected(co, NewSession), i, NewSession, tasks)
       \/ /\ UNCHANGED link
          /\ RefreshNoClient(EnsureFailed(co), i, tasks)

\* client.start_notify returns or raises (lines 197-207), or the timeout fires
RefreshStartNotifyDone(i) ==
    /\ rf[i].pc = "startn"
    /\ UNCHANGED <<cmd, stp, loopq>>
    /\ \/ /\ rf[i].client \in link.conn
          /\ link' = [link EXCEPT !.sub = @ \cup {rf[i].client}]
          /\ RefreshSuspend([co EXCEPT !._notify_active = TRUE], i, "write", rf[i].client, tasks)
       \/ /\ rf[i].client \in link.conn \cap link.sub      \* "already notifying"
          /\ UNCHANGED link
          /\ RefreshSuspend([co EXCEPT !._notify_active = TRUE], i, "write", rf[i].client, tasks)
       \/ /\ UNCHANGED link
          /\ RefreshExcept(co, i)

\* client.write_gatt_char returns, raises, or the timeout fires (line 315)
RefreshWriteDone(i) ==
    /\ rf[i].pc = "write"
    /\ UNCHANGED <<cmd, stp, loopq, link>>
    /\ \/ /\ rf[i].client \in link.conn
          /\ RefreshSuspend(co, i, "sleep", rf[i].client, tasks)
       \/ RefreshExcept(co, i)

\* asyncio.sleep(NOTIFY_WAIT) returns or the timeout fires (lines 316-317)
RefreshSleepDone(i) ==
    /\ rf[i].pc = "sleep"
    /\ UNCHANGED <<cmd, stp, loopq, link>>
    /\ \/ IF co._notify_active
          THEN RefreshSuspend(co, i, "stopn", rf[i].client, tasks)
          ELSE RefreshSucceed(co, i)
       \/ RefreshExcept(co, i)

\* client.stop_notify returns or raises (lines 213-223), or the timeout fires
RefreshStopNotifyDone(i) ==
    /\ rf[i].pc = "stopn"
    /\ UNCHANGED <<cmd, stp, loopq>>
    /\ LET c1 == [co EXCEPT !._notify_active = FALSE]
       IN  \/ /\ rf[i].client \in link.conn
              /\ link' = [link EXCEPT !.sub = @ \ {rf[i].client}]
              /\ RefreshSucceed(c1, i)
           \/ /\ UNCHANGED link                  \* any exception is swallowed
              /\ RefreshSucceed(c1, i)
           \/ /\ \E done \in BOOLEAN :           \* timeout: cancelled mid-call
                    link' = IF done THEN [link EXCEPT !.sub = @ \ {rf[i].client}] ELSE link
              /\ RefreshExcept(c1, i)

\* `await self._client.disconnect()` of line 328 returns or raises
RefreshDisconnectDone(i) ==
    /\ rf[i].pc = "disc"
    /\ UNCHANGED <<cmd, stp>>
    /\ \/ /\ link' = LinkWithout(rf[i].client)
          /\ \/ UNCHANGED loopq
             \/ /\ CanPost(DisconnectCb)
                /\ loopq' = loopq \cup {DisconnectCb}
       \/ UNCHANGED <<link, loopq>>
    /\ RefreshExceptTail(co, i)

-----------------------------------------------------------------------------
(* async_start_cleaning (lines 352-379), async_stop_cleaning (lines 381-409) *)

CmdIdle == [pc |-> "idle", kind |-> "start", client |-> NoSession]

CmdSuspend(c, pc, kind, client) ==
    /\ co' = c
    /\ cmd' = [pc |-> pc, kind |-> kind, client |-> client]
    /\ hist' = HEv("none")
    /\ UNCHANGED bus

\* lines 354-359 / 383-388
CmdNoClient(c) ==
    LET c1 == MarkUnavailable(c)
    IN  /\ bus' = _push_update(c1)
        /\ co' = _schedule_backoff(c1)
        /\ cmd' = CmdIdle
        /\ hist' = HSched(c1, "cmdnosess")

\* lines 363-365 / 392-395: the optimistic update
Optimistic(c, kind) ==
    IF kind = "start"
    THEN [c EXCEPT !.cleaning = "True"]
    ELSE [c EXCEPT !.cleaning = "False", !.minutes = 0]

\* the optimistic publish, then the command write suspends
CmdOptimistic(c, kind, client) ==
    LET c1 == Optimistic(c, kind)
    IN  /\ bus' = _push_update(c1)
        /\ co' = c1
        /\ cmd' = [pc |-> "write1", kind |-> kind, client |-> client]
        /\ hist' = HEv("pub")

CmdExchange(c, kind, client) ==
    IF c._notify_active
    THEN CmdOptimistic(c, kind, client)
    ELSE CmdSuspend(c, "startn", kind, client)

\* lines 375-379 / 405-409 as they would read without the finally
CmdFinally_skip(c, h) ==
    /\ hist' = h
    /\ co' = c
    /\ UNCHANGED bus
    /\ cmd' = CmdIdle
\* the finally: _safe_stop_notify (lines 375-379 / 405-409)
CmdFinally(c, h) ==
    /\ hist' = h
    /\ co' = c
    /\ UNCHANGED bus
    /\ cmd' = IF c._notify_active THEN [cmd EXCEPT !.pc = "stopn"] ELSE CmdIdle

\* lines 372-374 / 402-404 as they would read without _schedule_backoff
CmdExcept_no_retry(c) == CmdFinally(c, HSched(c, "cmdfail"))
\* lines 372-374 / 402-404, then the finally
CmdExcept(c) == CmdFinally(_schedule_backoff(c), HSched(c, "cmdfail"))

CmdBegin(kind) ==
    /\ stp.pc = "started"
    /\ cmd.pc = "idle"
    /\ UNCHANGED <<rf, stp, tasks, loopq, link>>
    /\ IF IsConnected(co)
       THEN CmdExchange(co, kind, co._client)
       ELSE \/ CmdNoClient(EnsureNotFound(co))
            \/ CmdSuspend(co, "conn", kind, NoSession)

CmdConnectDone ==
    /\ cmd.pc = "conn"
    /\ UNCHANGED <<rf, stp, tasks, loopq>>
    /\ \/ /\ FreeSessions # {}
          /\ link' = [link EXCEPT !.conn = @ \cup {NewSession}]
          /\ CmdExchange(EnsureConnected(co, NewSession), cmd.kind, NewSession)
       \/ /\ UNCHANGED link
          /\ CmdNoClient(EnsureFailed(co))

CmdStartNotifyDone ==
    /\ cmd.pc = "startn"
    /\ UNCHANGED <<rf, stp, tasks, loopq>>
    /\ \/ /\ cmd.client \in link.conn
          /\ link' = [link EXCEPT !.sub = @ \cup {cmd.client}]
          /\ CmdOptimistic([co EXCEPT !._notify_active = TRUE], cmd.kind, cmd.client)
       \/ /\ cmd.client \in link.conn \cap link.sub
          /\ UNCHANGED link
          /\ CmdOptimistic([co EXCEPT !._notify_active = TRUE], cmd.kind, cmd.client)
       \/ /\ UNCHANGED link
          /\ CmdExcept(co)

\* the two writes and the two sleeps inside the timeout block
CmdStepDone ==
    /\ cmd.pc \in {"write1", "sleep1", "write2", "sleep2"}
    /\ UNCHANGED <<rf, stp, tasks, loopq, link>>
    /\ \/ /\ cmd.pc \in {"write1", "write2"} => cmd.client \in link.conn
          /\ IF cmd.pc = "sleep2"
             THEN CmdFinally(co, HEv("none"))
             ELSE CmdSuspend(co, CASE cmd.pc = "write1" -> "sleep1"
                                   [] cmd.pc = "sleep1" -> "write2"
                                   [] cmd.pc = "write2" -> "sleep2",
                             cmd.kind, cmd.client)
       \/ CmdExcept(co)

CmdStopNotifyDone ==
    /\ cmd.pc = "stopn"
    /\ UNCHANGED <<rf, stp, tasks, loopq, bus>>
    /\ hist' = HEv("none")
    /\ co' = [co EXCEPT !._notify_active = FALSE]
    /\ cmd' = CmdIdle
    /\ \/ /\ cmd.client \in link.conn
          /\ link' = [link EXCEPT !.sub = @ \ {cmd.client}]
       \/ UNCHANGED link

-----------------------------------------------------------------------------
(* Lifecycle: async_start (lines 86-95), async_stop (lines 97-118) *)

AsyncStart ==
    /\ stp.pc = "new"
    /\ stp' = [stp EXCEPT !.pc = "started"]
    /\ co' = [co EXCEPT !._unsub_refresh = TRUE, !._unsub_timer = TRUE]
    /\ tasks' = tasks + 1
    /\ hist' = HEv("none")
    /\ UNCHANGED <<bus, rf, cmd, loopq, link>>

\* lines 113-118
StopTail(c) ==
    LET c1 == DropSession(c)
    IN  /\ co' = c1
        /\ bus' = _push_update(c1)
        /\ stp' = [pc |-> "done", client |-> NoSession]
        /\ rf' = [i \in Slots |-> [rf[i] EXCEPT !.stopped = (rf[i].pc # "idle")]]
        /\ hist' = HEv("stop")

\* lines 99-110
StopBegin ==
    /\ stp.pc = "started"
    /\ UNCHANGED <<cmd, tasks, loopq, link>>
    /\ LET c1 == CancelBackoff([co EXCEPT !._unsub_timer = FALSE, !._unsub_refresh = FALSE])
       IN  IF IsConnected(c1)
           THEN /\ co' = c1
                /\ UNCHANGED rf
                /\ stp' = [pc |-> "disc", client |-> c1._client]
                /\ hist' = HEv("none")
                /\ UNCHANGED bus
           ELSE StopTail(c1)

StopDisconnectDone ==
    /\ stp.pc = "disc"
    /\ UNCHANGED <<cmd, tasks>>
    /\ \/ /\ link' = LinkWithout(stp.client)
          /\ \/ UNCHANGED loopq
             \/ /\ CanPost(DisconnectCb)
                /\ loopq' = loopq \cup {DisconnectCb}
       \/ UNCHANGED <<link, loopq>>
    /\ StopTail(co)

-----------------------------------------------------------------------------
(* Callbacks run by the event loop *)

\* _on_disconnect (lines 182-190)
OnDisconnect ==
    /\ DisconnectCb \in loopq
    /\ loopq' = loopq \ {DisconnectCb}
    /\ co' = DropSession(co)
    /\ bus' = _push_update(co')
    /\ hist' = HEv("pub")
    /\ UNCHANGED <<rf, cmd, stp, tasks, link>>

\* lines 250-251 as they would read without `self.available = True`
_handle_notify_parse_only(self, data) ==
    IF _is_ack_frame(data) THEN self ELSE _parse_status(self, data)
\* _handle_notify (lines 245-252)
_handle_notify(self, data) ==
    IF _is_ack_frame(data)
    THEN self
    ELSE [_parse_status(self, data) EXCEPT !.available = TRUE]

HandleNotify(data) ==
    /\ NotifyCb(data) \in loopq
    /\ loopq' = loopq \ {NotifyCb(data)}
    /\ co' = _handle_notify(co, data)
    /\ bus' = IF _is_ack_frame(data) THEN bus ELSE _push_update(co')
    /\ hist' = HEv(IF _is_ack_frame(data) THEN "ack" ELSE "pub")
    /\ UNCHANGED <<rf, cmd, stp, tasks, link>>

\* _queue_or_run_refresh (lines 127-133)
QueueOrRunRefresh ==
    /\ RefreshCb \in loopq
    /\ loopq' = loopq \ {RefreshCb}
    /\ IF locked(co)
       THEN /\ co' = [co EXCEPT !._refresh_queued = TRUE]
            /\ UNCHANGED tasks
       ELSE /\ tasks' = tasks + 1
            /\ UNCHANGED co
    /\ hist' = HEv("none")
    /\ UNCHANGED <<bus, rf, cmd, stp, link>>

-----------------------------------------------------------------------------
(* Events from outside the event loop *)

\* _on_refresh_request (lines 123-125): the refresh signal is dispatched
RefreshRequest ==
    /\ co._unsub_refresh
    /\ Room
    /\ CanPost(RefreshCb)
    /\ RefreshCb \notin loopq
    /\ loopq' = loopq \cup {RefreshCb}
    /\ hist' = HEv("none")
    /\ UNCHANGED <<co, bus, rf, cmd, stp, tasks, link>>

\* _on_notify (lines 226-234): the peer notifies on a subscribed session
NotifyArrives(s, data) ==
    /\ s \in link.conn \cap link.sub
    /\ CanPost(NotifyCb(data))
    /\ NotifyCb(data) \notin loopq
    /\ loopq' = loopq \cup {NotifyCb(data)}
    /\ hist' = HEv("none")
    /\ UNCHANGED <<co, bus, rf, cmd, stp, tasks, link>>

\* lines 163-169 as they would read with _on_disconnect called directly from
\* the transport's callback
PeerDisconnect_direct(s) ==
    /\ s \in link.conn
    /\ link' = LinkWithout(s)
    /\ co' = DropSession(co)
    /\ hist' = HEv("none")
    /\ UNCHANGED <<bus, rf, cmd, stp, tasks, loopq>>
\* the link drops; the callback set at lines 165-167 posts _on_disconnect
PeerDisconnect(s) ==
    /\ s \in link.conn
    /\ CanPost(DisconnectCb)
    /\ link' = LinkWithout(s)
    /\ loopq' = loopq \cup {DisconnectCb}
    /\ hist' = HEv("none")
    /\ UNCHANGED <<co, bus, rf, cmd, stp, tasks>>

\* the timer set by call_later at lines 348-350 fires
BackoffFires ==
    /\ co._backoff_handle = "pending"
    /\ Room
    /\ co' = [co EXCEPT !._backoff_handle = "fired"]
    /\ tasks' = tasks + 1
    /\ hist' = HEv("none")
    /\ UNCHANGED <<bus, rf, cmd, stp, loopq, link>>

-----------------------------------------------------------------------------

RefreshSteps ==
    \/ TaskStart
    \/ TimerTick
    \/ \E i \in Slots : RefreshConnectDone(i)
    \/ \E i \in Slots : RefreshStartNotifyDone(i)
    \/ \E i \in Slots : RefreshWriteDone(i)
    \/ \E i \in Slots : RefreshSleepDone(i)
    \/ \E i \in Slots : RefreshStopNotifyDone(i)
    \/ \E i \in Slots : RefreshDisconnectDone(i)
    \/ BackoffFires

CommandSteps ==
    \/ \E kind \in {"start", "stop"} : CmdBegin(kind)
    \/ CmdConnectDone
    \/ CmdStartNotifyDone
    \/ CmdStepDone
    \/ CmdStopNotifyDone

StopSteps ==
    \/ StopBegin
    \/ StopDisconnectDone

RequestSteps ==
    \/ RefreshRequest
    \/ QueueOrRunRefresh

DisconnectSteps ==
    \/ \E s \in Sessions : PeerDisconnect(s)
    \/ OnDisconnect

NotifySteps(F) ==
    \/ \E s \in Sessions, data \in F : NotifyArrives(s, data)
    \/ \E data \in F : HandleNotify(data)

\* The coordinator with its refresh sources, stop, peer events and
\* notifications; no start/stop-cleaning command is issued.
Next ==
    \/ AsyncStart
    \/ RefreshSteps
    \/ StopSteps
    \/ RequestSteps
    \/ DisconnectSteps
    \/ NotifySteps(StatusFrames)

Spec == Init /\ [][Next]_vars

\* The coordinator with commands issued while refreshes run; the peer sends
\* no notification and does not drop the link by itself, nobody signals the
\* refresh channel and nobody stops the coordinator.
NextCmd ==
    \/ AsyncStart
    \/ RefreshSteps
    \/ CommandSteps

SpecCmd == Init /\ [][NextCmd]_vars

\* The coordinator with everything that writes its published fields: the
\* first refresh, commands, stop, the peer dropping the link, and
\* notification frames of every kind.  The window is shorter than
\* REFRESH_INTERVAL and than a retry delay: the periodic timer and a
\* scheduled retry do not fire, and nobody signals the refresh channel.
NextSession ==
    \/ AsyncStart
    \/ TaskStart
    \/ \E i \in Slots : RefreshConnectDone(i)
    \/ \E i \in Slots : RefreshStartNotifyDone(i)
    \/ \E i \in Slots : RefreshWriteDone(i)
    \/ \E i \in Slots : RefreshSleepDone(i)
    \/ \E i \in Slots : RefreshStopNotifyDone(i)
    \/ \E i \in Slots : RefreshDisconnectDone(i)
    \/ CommandSteps
    \/ StopSteps
    \/ DisconnectSteps
    \/ NotifySteps(SessionFrames)

SpecSession == Init /\ [][NextSession]_vars

\* The started coordinator with its refresh sources, under the progress the
\* event loop and the timeouts give: a created task starts (async_create_task),
\* a posted callback runs, a call_later timer that is not cancelled fires, and
\* each await inside
\* `asyncio.timeout(CONNECT_TIMEOUT)` (line 155) or
\* `asyncio.timeout(REFRESH_TIMEOUT)` (line 312) ends, by returning, raising
\* or being cancelled by the timeout.  The `await self._client.disconnect()`
\* of line 328 is under no timeout and no progress is assumed for it.
NextLive ==
    \/ AsyncStart
    \/ RefreshSteps
    \/ RequestSteps

Fairness ==
    /\ WF_vars(TaskStart)
    /\ WF_vars(QueueOrRunRefresh)
    /\ WF_vars(BackoffFires)
    /\ WF_vars(\E i \in Slots : RefreshConnectDone(i))
    /\ WF_vars(\E i \in Slots : RefreshStartNotifyDone(i))
    /\ WF_vars(\E i \in Slots : RefreshWriteDone(i))
    /\ WF_vars(\E i \in Slots : RefreshSleepDone(i))
    /\ WF_vars(\E i \in Slots : RefreshStopNotifyDone(i))

SpecLive == Init /\ [][NextLive]_vars /\ Fairness

\* The started coordinator with commands, refreshes, their timers and the
\* peer's status notifications, under the progress of SpecLive and two more
\* assumptions: the periodic timer of async_track_time_interval keeps
\* firing, and the transport's disconnect() of line 328 returns or raises.
NextCmdLive ==
    \/ AsyncStart
    \/ RefreshSteps
    \/ CommandSteps
    \/ NotifySteps(StatusFrames)

FairnessCmd ==
    /\ Fairness
    /\ WF_vars(TimerTick)
    /\ WF_vars(\E i \in Slots : RefreshDisconnectDone(i))

SpecCmdLive == Init /\ [][NextCmdLive]_vars /\ FairnessCmd

\* _handle_notify, _is_ack_frame and _parse_status applied to one frame: a
\* freshly constructed coordinator with one posted frame, drawn from
\* DecodeInputs, which the event loop then handles.
InitDecode ==
    /\ co = InitCo
    /\ bus = [minutes |-> NoneInt, state |-> <<None, 0>>, in_water |-> None]
    /\ rf = [i \in Slots |-> IdleSlot]
    /\ cmd = CmdIdle
    /\ stp = [pc |-> "new", client |-> NoSession]
    /\ tasks = 0
    /\ loopq \in {{NotifyCb(data)} : data \in DecodeInputs}
    /\ link = [conn |-> {}, sub |-> {}]
    /\ hist = [ev |-> "none", lastDelay |-> 0, failRun |-> 0]

NextDecode == \E data \in DecodeInputs : HandleNotify(data)

SpecDecode == InitDecode /\ [][NextDecode]_vars

-----------------------------------------------------------------------------
(* Properties *)

InFlight == {i \in Slots : rf[i].pc # "idle"}
Completed == {"ok", "fail", "nosess"}

\* C1: at most one refresh is in flight at any instant, the lock is held
\* exactly while one is, and an async_refresh that starts while the lock is
\* held returns at once, leaving only the holder in flight.
C1_SingleFlight ==
    /\ Cardinality(InFlight) <= 1
    /\ co._lock <=> InFlight # {}
    /\ hist.ev = "skip" => co._lock /\ Cardinality(InFlight) = 1

C1_Witness ==
    /\ hist.ev = "skip"
    /\ co._lock
    /\ \E i \in Slots : rf[i].pc \in {"conn", "startn", "write", "sleep", "stopn"}

\* C2: when a refresh that coalesced one or more on-demand requests ends,
\* exactly one additional refresh run is started.
C2_OneTrailingRun ==
    [][co._lock /\ co._refresh_queued /\ ~co'._lock => tasks' = tasks + 1]_vars

\* C3: a command is never between its first and last link step while a
\* refresh is between its first and last link step.
C3_NoOverlap == ~(cmd.pc # "idle" /\ InFlight # {})

\* C4: a refresh that ends with the trailing-refresh flag set clears the
\* flag and starts exactly one new refresh, on every exit path.
C4_TrailingOnEveryExit ==
    [][co._refresh_queued /\ hist'.ev \in Completed
          => ~co'._refresh_queued /\ tasks' = tasks + 1]_vars

\* C5: _backoff always lies between BACKOFF_START and BACKOFF_MAX, a
\* scheduled delay never exceeds BACKOFF_MAX, a successful refresh leaves
\* _backoff at BACKOFF_START, and between two resets each scheduled delay is
\* at least the one scheduled before it.
BackoffInRange ==
    /\ BACKOFF_START <= co._backoff
    /\ co._backoff <= BACKOFF_MAX
    /\ hist.lastDelay <= BACKOFF_MAX
    /\ hist.ev = "ok" => co._backoff = BACKOFF_START

DelaysNonDecreasing ==
    hist'.ev \in Scheduling /\ hist.failRun >= 1 => hist'.lastDelay >= hist.lastDelay

C5_Backoff == []BackoffInRange /\ [][DelaysNonDecreasing]_vars

C5_Witness ==
    /\ hist.ev = "ok"
    /\ hist.lastDelay = BACKOFF_MAX
    /\ co._backoff = BACKOFF_START

\* C6: the k-th consecutive failed refresh since the backoff was last at its
\* start value schedules the delay min(BACKOFF_START * 2^(k-1), BACKOFF_MAX);
\* the first five delays are 3, 6, 12, 24, 30.
DelayOfFailure(k) == Min(BACKOFF_START * 2 ^ (k - 1), BACKOFF_MAX)
FirstFiveDelays == <<3, 6, 12, 24, 30>>

C6_DelaySequence ==
    /\ hist.failRun \in 1..(MaxFail - 1) => hist.lastDelay = DelayOfFailure(hist.failRun)
    /\ hist.failRun \in 1..5 => hist.lastDelay = FirstFiveDelays[hist.failRun]

C6_Witness ==
    /\ hist.ev = "nosess"
    /\ hist.failRun = 5
    /\ hist.lastDelay = 30
    /\ co._backoff_handle = "pending"

\* C7: when async_stop returns, available is false, cleaning is None,
\* minutes is 0 and in_water is None.
C7_StateAfterStop ==
    hist.ev = "stop" =>
        /\ co.available = FALSE
        /\ co.cleaning = None
        /\ co.minutes = 0
        /\ co.in_water = None

\* C8: once async_stop has published its final state, no step publishes.
C8_NoBroadcastAfterStop ==
    stp.pc = "done" /\ hist.ev \in Publishing => hist.ev = "stop"

\* C9: a refresh that was in flight when async_stop returned ends without
\* changing available, cleaning, minutes or in_water, without a session held
\* and without a pending backoff timer.
C9_ResultDiscarded ==
    [][\A i \in Slots :
          rf[i].stopped /\ rf'[i].pc = "idle" =>
              /\ co'.available = co.available
              /\ co'.cleaning = co.cleaning
              /\ co'.minutes = co.minutes
              /\ co'.in_water = co.in_water
              /\ co'._client = NoSession
              /\ co'._backoff_handle # "pending"]_vars

\* C10: a refresh whose exchange raised or timed out ends with the session
\* dropped, the notifications flag false, the device published as
\* unavailable with minutes 0, and a backoff retry pending.
C10_FailureTeardown ==
    hist.ev = "fail" =>
        /\ co._client = NoSession
        /\ ~co._notify_active
        /\ bus.minutes = NoneInt
        /\ bus.state = <<None, 0>>
        /\ bus.in_water = None
        /\ co._backoff_handle = "pending"

\* C11: when an exchange has failed at a write or notification step, in a
\* refresh or in a command, and the failing operation has ended, the
\* coordinator no longer holds a connected session, so the next operation's
\* _ensure_client cannot hand the same session out again.
C11_TeardownAfterFailure ==
    hist.ev \in {"fail", "cmdfail"} /\ cmd.pc = "idle" => ~IsConnected(co)

\* The frame formats as the protocol describes them.
IsAcknowledgement(data) ==
    \/ /\ Len(data) \in {3, 4}
       /\ data[1] = 0
       /\ data[2] = 81
    \/ /\ Len(data) <= 12
       /\ \/ /\ Len(data) >= 2
             /\ data[Len(data) - 1] = 81
             /\ data[Len(data)] = 12
          \/ /\ Len(data) >= 3
             /\ data[Len(data) - 2] = 81
             /\ data[Len(data) - 1] = 12
             /\ data[Len(data)] = 253
IsStatusFrame(data) ==
    /\ Len(data) = 20
    /\ data[1] = 255
    /\ data[2] = 165
    /\ data[3] = 58
    /\ data[4] = 19
    /\ data[5] = 132
DecodedCleaning(data) == data[6] >= 128
DecodedMinutes(data) ==
    IF DecodedCleaning(data) /\ data[7] + 256 * data[8] <= 300
    THEN data[7] + 256 * data[8]
    ELSE 0
DecodedInWater(data) == data[17] # 0 \/ data[18] # 0 \/ data[19] # 0 \/ data[20] # 0

\* a step in which the event loop runs _handle_notify on `data`
Handled(data) == NotifyCb(data) \in loopq /\ NotifyCb(data) \notin loopq'

\* C12: handling a frame that is not an acknowledgement and is a valid status
\* frame sets cleaning, minutes and in_water to the decoded values, sets
\* available and publishes them, whatever operation is in progress.
C12_StatusFrameApplied ==
    [][\A data \in SessionFrames :
          Handled(data) /\ ~IsAcknowledgement(data) /\ IsStatusFrame(data) =>
              /\ co'.cleaning = OptBool(DecodedCleaning(data))
              /\ co'.minutes = DecodedMinutes(data)
              /\ co'.in_water = OptBool(DecodedInWater(data))
              /\ co'.available
              /\ bus' = [minutes |-> DecodedMinutes(data),
                         state |-> <<OptBool(DecodedCleaning(data)), DecodedMinutes(data)>>,
                         in_water |-> OptBool(DecodedInWater(data))]]_vars

\* a status frame was applied after the optimistic update of a stop command
C12_Witness ==
    /\ cmd.kind = "stop"
    /\ cmd.pc \in {"write1", "sleep1", "write2", "sleep2"}
    /\ co.available
    /\ co.cleaning = "True"
    /\ co.minutes = 30
    /\ co.in_water = "False"
    /\ bus = [minutes |-> 30, state |-> <<"True", 30>>, in_water |-> "False"]

\* C13: handling a frame that is neither an acknowledgement nor a valid
\* status frame leaves available, cleaning, minutes and in_water unchanged.
C13_GarbageDiscarded ==
    [][\A data \in SessionFrames :
          Handled(data) /\ ~IsAcknowledgement(data) /\ ~IsStatusFrame(data) =>
              /\ co'.available = co.available
              /\ co'.cleaning = co.cleaning
              /\ co'.minutes = co.minutes
              /\ co'.in_water = co.in_water]_vars

\* C14: handling an acknowledgement frame changes no field of the
\* coordinator and sends no broadcast.
C14_AckIgnored ==
    [][\A data \in SessionFrames :
          Handled(data) /\ IsAcknowledgement(data) =>
              /\ co' = co
              /\ bus' = bus
              /\ hist'.ev \notin Publishing]_vars

\* an acknowledgement was handled while a decoded value was on the bus
C14_Witness ==
    /\ hist.ev = "ack"
    /\ co.available
    /\ co.minutes = 30
    /\ bus.minutes = 30

\* C15: the acknowledgement filter does not match a 20-byte frame that
\* starts with ff a5 3a 13 84, whatever its other bytes: the frame reaches
\* the status decoder and is published.
C15_StatusNeverAck ==
    [][\A data \in DecodeInputs :
          Handled(data) /\ IsStatusFrame(data) =>
              /\ ~_is_ack_frame(data)
              /\ hist'.ev = "pub"]_vars

\* the status frame ending in 51 0c fd was decoded
C15_Witness ==
    /\ hist.ev = "pub"
    /\ co.cleaning = "True"
    /\ co.minutes = 9
    /\ co.in_water = "True"
    /\ bus.minutes = 9

\* C16: a 20-byte frame that starts with ff a5 3a 13 84 decodes to
\* cleaning = bit 7 of byte 5, minutes = the little-endian value of bytes
\* 6..7 if cleaning and at most 300, else 0, in_water = some byte of 16..19
\* is non-zero; ffa53a1384 85 1e00 and 12 zero bytes decodes to
\* (true, 30, false).
DecodesAsStated ==
    \A data \in DecodeInputs :
        Handled(data) /\ IsStatusFrame(data) =>
            /\ co'.cleaning = OptBool(DecodedCleaning(data))
            /\ co'.minutes = DecodedMinutes(data)
            /\ co'.in_water = OptBool(DecodedInWater(data))
            /\ ~DecodedCleaning(data) => co'.minutes = 0
            /\ co'.minutes <= MINUTES_CEILING
ExampleDecodes ==
    LET r == _parse_status(co, FrameCleaning30)
    IN  r.cleaning = "True" /\ r.minutes = 30 /\ r.in_water = "False"

C16_Decode == []ExampleDecodes /\ [][DecodesAsStated]_vars

\* a cleaning frame with bytes 6..7 = 1e 00 and bytes 16..19 zero was decoded
C16_Witness ==
    /\ hist.ev = "pub"
    /\ co.cleaning = "True"
    /\ co.minutes = 30
    /\ co.in_water = "False"
    /\ bus.state = <<"True", 30>>

\* C17: minutes is always within 0..300, and is 0 whenever available is
\* false or cleaning is false.
C17_MinutesRange ==
    /\ co.minutes >= 0
    /\ co.minutes <= 300
    /\ ~co.available => co.minutes = 0
    /\ co.cleaning = "False" => co.minutes = 0

\* the device went unavailable after 30 minutes had been published
C17_Witness ==
    /\ ~co.available
    /\ co.cleaning = "True"
    /\ co.minutes = 0
    /\ bus.minutes = 30

\* C18: _ensure_client hands back the held session when it is connected,
\* without connecting again; otherwise it ends either with a connected
\* session or with no session, available = false and minutes = 0; the caller
\* always goes on with one of the two.
ConnectedHeld == co._client # NoSession /\ co._client \in link.conn
ExchangePcs == {"startn", "write", "write1"}

ReturnsHeldSession ==
    /\ \A i \in Slots :
          ConnectedHeld /\ rf[i].pc = "idle" /\ rf'[i].pc # "idle" =>
              /\ rf'[i].pc \in ExchangePcs
              /\ rf'[i].client = co._client
              /\ co'._client = co._client
              /\ link' = link
    /\ ConnectedHeld /\ cmd.pc = "idle" /\ cmd'.pc # "idle" =>
          /\ cmd'.pc \in ExchangePcs
          /\ cmd'.client = co._client
          /\ co'._client = co._client
          /\ link' = link
    /\ ConnectedHeld /\ hist'.ev = "nosess" => \E i \in Slots : rf[i].pc = "conn"
    /\ ConnectedHeld /\ hist'.ev = "cmdnosess" => cmd.pc = "conn"

ConnectReturns ==
    /\ \A i \in Slots :
          rf[i].pc = "conn" /\ rf'[i].pc # "conn" =>
              \/ hist'.ev = "nosess" /\ rf'[i].pc = "idle"
              \/ /\ rf'[i].pc \in ExchangePcs
                 /\ rf'[i].client = co'._client
                 /\ co'._client \in link'.conn
    /\ cmd.pc = "conn" /\ cmd'.pc # "conn" =>
          \/ hist'.ev = "cmdnosess" /\ cmd'.pc = "idle"
          \/ /\ cmd'.pc \in ExchangePcs
             /\ cmd'.client = co'._client
             /\ co'._client \in link'.conn

NoSessionUnavailable ==
    hist.ev \in {"nosess", "cmdnosess"} => ~co.available /\ co.minutes = 0

C18_EnsureClient ==
    /\ []NoSessionUnavailable
    /\ [][ReturnsHeldSession /\ ConnectReturns]_vars

\* a command found the held session disconnected and the peer out of reach,
\* after a cleaning frame had been decoded
C18_Witness ==
    /\ hist.ev = "cmdnosess"
    /\ co._client # NoSession
    /\ co._client \notin link.conn
    /\ co.cleaning = "True"
    /\ ~co.available
    /\ co.minutes = 0

\* C19: a publish made while available is false carries None for every
\* value of the minutes, state (cleaning and minutes) and in-water signals.
C19_UnknownWhenUnavailable ==
    hist.ev \in Publishing /\ ~co.available =>
        /\ bus.minutes = NoneInt
        /\ bus.state = <<None, NoneInt>>
        /\ bus.in_water = None

\* C20: when no refresh, command or stop is in progress, the values last
\* published are the ones a publish of the current state would carry.
Quiescent ==
    /\ InFlight = {}
    /\ cmd.pc = "idle"
    /\ stp.pc # "disc"
C20_PublishedAfterChange == Quiescent => bus = _push_update(co)

\* C21: while the coordinator is started, a refresh that failed leaves a
\* pending retry timer behind, and another refresh attempt starts afterwards:
\* after a failed exchange a later async_refresh takes the lock, and after
\* the k-th "not found" in a row either one that suspends or the (k+1)-th.
FailedRefresh == hist.ev \in {"fail", "nosess"}
FailureArmsRetry == FailedRefresh => co._backoff_handle = "pending"
AttemptStarted == hist.ev \in {"begin", "preempt", "nosess"}
C21_RetryFollows ==
    /\ []FailureArmsRetry
    /\ (hist.ev = "fail" ~> AttemptStarted)
    /\ \A k \in 1..(MaxFail - 1) :
          (hist.ev = "nosess" /\ hist.failRun = k)
              ~> (hist.ev \in {"begin", "preempt"} \/ hist.failRun # k)

\* the retry after a failed first attempt is under way, started by its
\* timer or by an earlier trigger that cancelled it
C21_Witness ==
    /\ hist.ev \in {"begin", "preempt"}
    /\ hist.failRun = 1
    /\ hist.lastDelay = BACKOFF_START
    /\ co._lock
    /\ co._backoff_handle = "None"
    /\ co._backoff = 2 * BACKOFF_START
    /\ ~co.available


\* C22: a step taken in the transport's context (a notification arriving,
\* the link dropping) only posts a callback to the loop: no coroutine
\* advances, no task is created, nothing is taken off the loop's queue, and
\* the coordinator's fields and the published values are left as they were.
TransportStep ==
    /\ rf' = rf /\ cmd' = cmd /\ stp' = stp /\ tasks' = tasks
    /\ loopq \subseteq loopq'
    /\ loopq' # loopq \/ link' # link
C22_CallbacksOnlyPost == [][TransportStep => co' = co /\ bus' = bus]_vars

\* the link of the held session has dropped and _on_disconnect is posted but
\* has not run: the coordinator still shows the session and its last state
C22_Witness ==
    /\ DisconnectCb \in loopq
    /\ co._client # NoSession
    /\ co._client \notin link.conn
    /\ co.available
    /\ co.cleaning = "True"
    /\ InFlight = {}


\* C23: every refresh that has taken the lock finishes and releases it, even
\* when a transport operation it awaits never returns.
C23_RefreshTerminates == co._lock ~> ~co._lock


\* C24: the connect timeout is shorter than the timeout of the whole refresh
\* exchange: a refresh waiting for its connection is under a shorter limit
\* than the one its exchange will be under.
C24_ConnectShorter ==
    \A i \in Slots : rf[i].pc = "conn" => CONNECT_TIMEOUT < REFRESH_TIMEOUT


\* C25: the trailing-refresh flag is true only while a refresh is in flight,
\* and is false again once that refresh has completed.
C25_QueuedOnlyInFlight == co._refresh_queued => co._lock


\* C26: a refresh that takes the lock cancels the retry timer before it
\* touches the link, so while a refresh is in flight no retry timer is
\* pending; a timer fires, and creates its refresh task, only while it is the
\* pending one, and a refresh that starts leaves none pending unless it
\* fails at once and arms a new one.
TimerFired ==
    /\ co'._backoff_handle = "fired"
    /\ co._backoff_handle # "fired"
RefreshStarts == ~co._lock /\ co'._lock
CmdOrder ==
    [idle |-> {"conn", "startn", "write1"},
     conn |-> {"idle", "startn", "write1"},
     startn |-> {"write1", "stopn", "idle"},
     write1 |-> {"sleep1", "stopn", "idle"},
     sleep1 |-> {"write2", "stopn", "idle"},
     write2 |-> {"sleep2", "stopn", "idle"},
     sleep2 |-> {"stopn", "idle"},
     stopn |-> {"idle"}]
CmdExchangePcs == {"startn", "write1", "sleep1", "write2", "sleep2", "stopn"}
CmdInOrder == cmd'.pc # cmd.pc => cmd'.pc \in CmdOrder[cmd.pc]
PublishBeforeWrite ==
    cmd'.pc = "write1" /\ cmd.pc # "write1"
        => /\ co'._notify_active
           /\ co'.cleaning = (IF cmd'.kind = "start" THEN "True" ELSE "False")
           /\ bus' = _push_update(co')
           /\ hist'.ev = "pub"
StopOnExit ==
    /\ cmd.pc \in CmdExchangePcs /\ cmd'.pc = "idle" => ~co'._notify_active
    /\ cmd.pc \in CmdExchangePcs /\ hist'.ev = "cmdfail"
          => cmd'.pc = "stopn" \/ ~co'._notify_active
C27_CommandSteps == [][CmdInOrder /\ PublishBeforeWrite /\ StopOnExit]_vars

\* a start command whose write failed after the optimistic publish is in its
\* stop-notifications step
C27_Witness ==
    /\ hist.ev = "cmdfail"
    /\ cmd.pc = "stopn"
    /\ cmd.kind = "start"
    /\ co.cleaning = "True"
    /\ co._notify_active
    /\ bus.state[1] = "True"


\* C28: a command whose exchange fails or times out arms the retry timer
\* and leaves the optimistic cleaning value as it is; afterwards cleaning
\* changes only when a valid status frame is decoded or another command
\* makes its own optimistic update; and a refresh attempt follows the failed
\* command.
CommandFailed == hist.ev = "cmdfail"
FailedCommandArmsRetry == CommandFailed => co._backoff_handle = "pending"
FailureKeepsOptimistic ==
    hist'.ev = "cmdfail" => co'.cleaning = co.cleaning /\ bus' = bus
CleaningOverwrittenBy ==
    co'.cleaning # co.cleaning
        => \/ \E data \in StatusFrames : Handled(data) /\ IsStatusFrame(data)
           \/ cmd'.pc = "write1" /\ cmd.pc # "write1"
StartCallsOnlyWhenClear ==
    /\ \A i \in Slots : rf'[i].pc = "startn" /\ rf[i].pc # "startn"
                            => ~co'._notify_active
    /\ cmd'.pc = "startn" /\ cmd.pc # "startn" => ~co'._notify_active
StartSkippedWhenSet ==
    /\ \A i \in Slots : rf[i].pc = "idle" /\ rf'[i].pc = "write"
          => co._notify_active /\ co'._notify_active /\ link' = link
    /\ cmd.pc = "idle" /\ cmd'.pc = "write1"
          => co._notify_active /\ co'._notify_active /\ link' = link
StartSetsFlag ==
    /\ \A i \in Slots : rf[i].pc = "startn" /\ rf'[i].pc = "write"
                            => co'._notify_active
    /\ cmd.pc = "startn" /\ cmd'.pc = "write1" => co'._notify_active
StopCallsOnlyWhenSet ==
    /\ \A i \in Slots : rf'[i].pc = "stopn" /\ rf[i].pc # "stopn"
                            => co._notify_active
    /\ cmd'.pc = "stopn" /\ cmd.pc # "stopn" => co._notify_active
StopSkippedWhenClear ==
    /\ \A i \in Slots : rf[i].pc = "sleep" /\ hist'.ev = "ok"
          => ~co._notify_active /\ ~co'._notify_active /\ link' = link
    /\ cmd.pc = "sleep2" /\ cmd'.pc = "idle"
          => ~co._notify_active /\ ~co'._notify_active /\ link' = link
StopClearsFlag ==
    /\ \A i \in Slots : rf[i].pc = "stopn" /\ rf'[i].pc # "stopn"
                            => ~co'._notify_active
    /\ cmd.pc = "stopn" /\ cmd'.pc # "stopn" => ~co'._notify_active
C29_NotifyIdempotent ==
    [][/\ StartCallsOnlyWhenClear /\ StartSkippedWhenSet /\ StartSetsFlag
       /\ StopCallsOnlyWhenSet /\ StopSkippedWhenClear /\ StopClearsFlag]_vars

\* a refresh that started while a command had notifications on went
\* straight to its write
C29_Witness ==
    /\ hist.ev \in {"begin", "preempt"}
    /\ \E i \in Slots : rf[i].pc = "write"
    /\ cmd.pc \in {"write1", "sleep1", "write2", "sleep2"}
    /\ co._notify_active
    /\ co._client \in link.sub


\* C30: a refresh whose stop_notify call fails for a reason other than "not
\* notifying" (the session is no longer connected, or the call ends with the
\* subscription still in place) does not end as a success.
StopNotifyFailed(i) ==
    /\ rf[i].pc = "stopn"
    /\ rf'[i].pc # "stopn"
    /\ \/ rf[i].client \notin link.conn
       \/ rf[i].client \in link.sub /\ rf[i].client \in link'.sub
C30_NotifyErrorsPropagate ==
    [][\A i \in Slots : StopNotifyFailed(i) => hist'.ev # "ok"]_vars


\* C31: after every publish the minutes sensor and the in-water binary
\* sensor both report themselves available exactly when the coordinator's
\* available flag is true.
C31_ObserversAgree ==
    hist.ev \in Publishing
        => /\ MinutesSensor(co, bus.minutes).available = co.available
           /\ InWaterSensor(bus.in_water).available = co.available


\* C32: while the coordinator is started, a refresh does not end as a
\* success (available = True published, backoff reset) while no session is
\* held, as after _on_disconnect has run during the refresh.
C32_NoSuccessWithoutSession ==
    hist.ev = "ok" /\ stp.pc = "started" => co._client # NoSession


\* C33: _on_disconnect run for a disconnect event of an earlier connection,
\* while the session now held is connected, leaves that session and the
\* available flag as they are.
DisconnectHandled == DisconnectCb \in loopq /\ DisconnectCb \notin loopq'
C33_StaleDisconnectIgnored ==
    [][DisconnectHandled /\ co._client \in link.conn
          => co'._client = co._client /\ co'.available = co.available]_vars


\* C34: the notifications flag never claims a subscription that does not
\* exist: while the coordinator is started and no disconnect event is
\* waiting to be handled, a set flag means that a session is held and that
\* the transport has the subscription on it.
C34_FlagMeansSubscribed ==
    co._notify_active /\ stp.pc = "started" /\ DisconnectCb \notin loopq
        => co._client # NoSession /\ co._client \in link.conn \cap link.sub


====
